---- MODULE Spec2Model ----
(***************************************************************************)
(* Model of gradient-generator, src/lib.rs: extract_gradient_hex.          *)
(*                                                                         *)
(* Number representation (the program computes in f64/f32):                *)
(*   - an angle in radians is an integer number of ticks, one tick being   *)
(*     pi/360 (half a degree), so Pi == 360 ticks;                         *)
(*   - an angle in degrees is an integer number of tenths of a degree;     *)
(*   - a sine, cosine, dx, dy or projection value is an integer number of  *)
(*     thousandths (TrigScale);                                            *)
(*   - gradient values and magnitudes are integers (Sobel of 8-bit data).  *)
(* Comparisons against 0.1*max and 0.15*(max-min) are done exactly, by     *)
(* cross-multiplication.                                                   *)
(***************************************************************************)
EXTENDS Integers, Sequences, FiniteSets, TLC

VARIABLES
    pc,                 \* position in extract_gradient_hex
    input,              \* the file behind image_path
    img,                \* decoded Mat: [width, height, content]
    size,               \* working size [width, height] passed to resize
    blurred,            \* Mat of <<b, g, r>>, flat row-major buffer
    gray,               \* Mat of intensities
    grad_x, grad_y,     \* Sobel derivatives
    mag, angle_rad,     \* cart_to_polar outputs
    mag_max_val,        \* max_val of line 92
    valid_mask_output,  \* 8-bit mask, 0 or 255
    non_zero_count,
    dominant_angle,     \* ticks
    dx, dy,             \* thousandths
    angle,              \* tenths of a degree
    t,                  \* projection field, thousandths
    min_val, max_val,   \* of lines 170-171
    start_mask, end_mask,
    start_bgr, end_bgr,
    mean_calls,         \* the bands get_avg_color (core::mean) was called for
    result              \* what extract_gradient_hex returned

vars == <<pc, input, img, size, blurred, gray, grad_x, grad_y, mag, angle_rad,
          mag_max_val, valid_mask_output, non_zero_count, dominant_angle,
          dx, dy, angle, t, min_val, max_val, start_mask, end_mask,
          start_bgr, end_bgr, mean_calls, result>>

-----------------------------------------------------------------------------
(* Program constants *)

RESIZE_DIM == 100

\* threshold = 0.1 * max_val, kept as the fraction 1 / THRESHOLD_DEN
THRESHOLD_DEN == 10

\* non_zero_count < 10
MIN_STRONG == 10

\* 0.15 * (max_val - min_val), kept as the fraction BAND_PCT / 100
BAND_PCT == 15

-----------------------------------------------------------------------------
(* Bounds of the model *)

\* heights of the input images: 0 .. MaxSrcHeight
MaxSrcHeight == 3

\* longest run of equal strong pixels in a drawn polar field
MaxRun == 6

\* rows of a drawn working grid: 1 .. MaxRows
MaxRows == 2

-----------------------------------------------------------------------------
(* Arithmetic *)

TrigScale == 10 * 100
Pi == 2 * 180
Deg(n) == n * 10

Abs(a) == IF a < 0 THEN -a ELSE a

\* f64 division, rounded to the nearest unit, half away from zero
DivRound(a, b) ==
    IF a >= 0 THEN (2 * a + b) \div (2 * b)
              ELSE -((2 * (-a) + b) \div (2 * b))

RECURSIVE SqrtSearch(_, _, _)
SqrtSearch(n, lo, hi) ==
    IF lo >= hi THEN lo
    ELSE LET mid == (lo + hi + 1) \div 2
         IN  IF mid * mid <= n THEN SqrtSearch(n, mid, hi)
                               ELSE SqrtSearch(n, lo, mid - 1)

\* floor of the square root, n < 2^30
ISqrt(n) == SqrtSearch(n, 0, 32767)

\* sine of h ticks, 0 <= h <= Pi (Bhaskara's rational approximation:
\* exact at 0, 30, 90, 150 and 180 degrees)
SinHalfTurn(h) ==
    LET p == h * (Pi - h)
    IN  (4 * TrigScale * p) \div (162000 - p)

\* f64::sin
Sin(h) ==
    LET m == h % (2 * Pi)
    IN  IF m <= Pi THEN SinHalfTurn(m) ELSE -SinHalfTurn(m - Pi)

\* f64::cos. The double nearest to pi/2 is below pi/2, so its cosine is a
\* tiny positive number (6.1e-17) and not 0; the double nearest to 3pi/2 has
\* a tiny negative cosine. The smallest unit stands for them.
Cos(h) ==
    LET m == Abs(h) % (2 * Pi)
    IN  IF 2 * m = Pi THEN 1
        ELSE IF 2 * m = 3 * Pi THEN -1
        ELSE Sin(m + Pi \div 2)

\* arctangent of y / x in thousandths of a degree, 0 <= y <= x, x > 0
\* (atan z ~ z * (45 + 15.66 * (1 - z)) degrees on [0, 1])
AtanOctant(y, x) ==
    LET z == (TrigScale * y) \div x
    IN  (z * (45000 + (1566 * (TrigScale - z)) \div 100)) \div TrigScale

\* the angle of (x, y) in the first quadrant, x >= 0, y >= 0, not both 0,
\* in thousandths of a degree
AtanQuadrant(y, x) ==
    IF y <= x THEN AtanOctant(y, x) ELSE 90000 - AtanOctant(x, y)

\* f64::atan2(y, x) with a resolution of `unit` thousandths of a degree;
\* the result is in (360000 \div unit) -ths of a full turn, in
\* [-half turn, half turn]
Atan2Unit(y, x, unit) ==
    LET half == 180000 \div unit
        q    == IF x = 0 /\ y = 0 THEN 0
                ELSE (AtanQuadrant(Abs(y), Abs(x)) + unit \div 2) \div unit
    IN  IF x >= 0 THEN (IF y >= 0 THEN q ELSE -q)
        ELSE (IF y >= 0 THEN half - q ELSE q - half)

\* atan2 in ticks with a resolution of one tick
Atan2(y, x) == Atan2Unit(y, x, 500)

\* the atan2 without the factor 0.5
HalfAtan2_Whole(y, x) == 2 * Atan2Unit(y, x, 1000)

\* 0.5 * atan2(y, x) in ticks: the atan2 is resolved to a degree (two
\* ticks), so that its half is a whole number of ticks
HalfAtan2(y, x) == Atan2Unit(y, x, 1000)

\* f64::to_degrees: ticks to tenths of a degree
ToDegrees(r) == (r * Deg(180)) \div Pi

\* Rust's % on f64: the remainder has the sign of the dividend
TruncRem(a, n) == IF a >= 0 THEN a % n ELSE -((-a) % n)

\* a normalisation into (0, n] in place of [0, n)
RemEuclid_Inclusive(a, n) ==
    LET r == TruncRem(a, n)
    IN  IF r <= 0 THEN r + Abs(n) ELSE r

\* f64::rem_euclid
RemEuclid(a, n) ==
    LET r == TruncRem(a, n)
    IN  IF r < 0 THEN r + Abs(n) ELSE r

\* f64::clamp
Clamp(v, lo, hi) == IF v < lo THEN lo ELSE IF v > hi THEN hi ELSE v

-----------------------------------------------------------------------------
(* Mats: flat row-major buffers, idx = y * cols + x *)

\* Mat::default()
EmptyMat == << >>

Indices(cols, rows) == 0 .. (cols * rows - 1)

Max2(a, b) == IF a > b THEN a ELSE b
Min2(a, b) == IF a < b THEN a ELSE b

\* maximum of m[lo .. hi], lo <= hi
RECURSIVE MaxIn(_, _, _)
MaxIn(m, lo, hi) ==
    IF lo = hi THEN m[lo]
    ELSE LET mid == (lo + hi) \div 2
         IN  Max2(MaxIn(m, lo, mid), MaxIn(m, mid + 1, hi))

\* minimum of m[lo .. hi], lo <= hi
RECURSIVE MinIn(_, _, _)
MinIn(m, lo, hi) ==
    IF lo = hi THEN m[lo]
    ELSE LET mid == (lo + hi) \div 2
         IN  Min2(MinIn(m, lo, mid), MinIn(m, mid + 1, hi))

Len0(m) == Cardinality(DOMAIN m)

\* core::min_max_loc, maximum
MatMax(m) == MaxIn(m, 0, Len0(m) - 1)

\* core::min_max_loc, minimum
MatMin(m) == MinIn(m, 0, Len0(m) - 1)

\* core::count_non_zero
CountNonZero(m) == Cardinality({i \in DOMAIN m : m[i] # 0})

-----------------------------------------------------------------------------
(* Input images *)

SrcWidths == {0, 60, 100, 150}

Contents == {"black", "solid", "hramp", "vramp", "diag"}

\* The blurred working image of an input image, pixel (x, y), as <<b, g, r>>.
\* A solid image stays solid under area resize and Gaussian blur.
PixelOf(content, x, y) ==
    CASE content = "black" -> <<0, 0, 0>>
      [] content = "solid" -> <<40, 120, 200>>
      [] content = "hramp" -> <<2 * x, 100, 250 - 2 * x>>
      [] content = "vramp" -> <<60 * y, 30, 240 - 60 * y>>
      [] OTHER             -> <<x + 20 * y, x + 20 * y, x + 20 * y>>

\* the blurred working image as a Mat of cols x rows
BlurredImage(content, cols, rows) ==
    [idx \in Indices(cols, rows) |->
        PixelOf(content, idx % cols, idx \div cols)]

NoResult ==
    [status |-> "none", start_color |-> "", end_color |-> "", angle |-> 0,
     error |-> ""]

Err(msg) == [NoResult EXCEPT !.status = "err", !.error = msg]

Inputs ==
    {[utf8 |-> FALSE, width |-> 0, height |-> 0, content |-> "black"]}
    \cup [utf8 : {TRUE}, width : SrcWidths, height : 0 .. MaxSrcHeight,
          content : Contents]

\* the locals of extract_gradient_hex before they are assigned
UnassignedImage ==
    /\ img = [width |-> 0, height |-> 0, content |-> "black"]
    /\ size = [width |-> 0, height |-> 0]

UnassignedDerivatives ==
    /\ gray = EmptyMat
    /\ grad_x = EmptyMat
    /\ grad_y = EmptyMat

UnassignedPolar ==
    /\ mag = EmptyMat
    /\ angle_rad = EmptyMat

UnassignedEstimate ==
    /\ mag_max_val = 0
    /\ valid_mask_output = EmptyMat
    /\ non_zero_count = 0

UnassignedAxis ==
    /\ dx = 0
    /\ dy = 0
    /\ angle = 0

UnassignedProjection ==
    /\ t = EmptyMat
    /\ min_val = 0
    /\ max_val = 0

UnassignedColors ==
    /\ start_bgr = <<0, 0, 0>>
    /\ end_bgr = <<0, 0, 0>>
    /\ mean_calls = {}
    /\ result = NoResult

Unassigned ==
    /\ UnassignedImage
    /\ blurred = EmptyMat
    /\ UnassignedDerivatives
    /\ UnassignedPolar
    /\ UnassignedEstimate
    /\ dominant_angle = 0
    /\ UnassignedAxis
    /\ UnassignedProjection
    /\ start_mask = EmptyMat
    /\ end_mask = EmptyMat
    /\ UnassignedColors

Init ==
    /\ pc = "start"
    /\ input \in Inputs
    /\ Unassigned

-----------------------------------------------------------------------------
(* Decoding and validation, lines 21-29 *)

\* Mat::empty
IsEmpty(m) == m.width = 0 \/ m.height = 0

\* imgcodecs::imread: an undecodable file gives an empty Mat
Imread ==
    /\ pc = "start"
    /\ IF ~input.utf8
       THEN /\ pc' = "done"
            /\ result' = Err("Not a valid filepath")
            /\ img' = img
       ELSE /\ pc' = "decoded"
            /\ img' = [width |-> input.width, height |-> input.height,
                       content |-> input.content]
            /\ result' = result
    /\ UNCHANGED <<input, size, blurred, gray, grad_x, grad_y, mag, angle_rad,
                   mag_max_val, valid_mask_output, non_zero_count,
                   dominant_angle, dx, dy, angle, t, min_val, max_val,
                   start_mask, end_mask, start_bgr, end_bgr, mean_calls>>

\* a check that rejects only an image empty in both dimensions
EmptyCheckFails_Both(m) == m.width = 0 /\ m.height = 0

\* if img.empty() { bail }
EmptyCheckFails(m) == IsEmpty(m)

CheckEmpty ==
    /\ pc = "decoded"
    /\ IF EmptyCheckFails(img)
       THEN /\ pc' = "done"
            /\ result' = Err("Image is empty")
       ELSE /\ pc' = "nonempty"
            /\ result' = result
    /\ UNCHANGED <<input, img, size, blurred, gray, grad_x, grad_y, mag,
                   angle_rad, mag_max_val, valid_mask_output, non_zero_count,
                   dominant_angle, dx, dy, angle, t, min_val, max_val,
                   start_mask, end_mask, start_bgr, end_bgr, mean_calls>>

-----------------------------------------------------------------------------
(* Preprocessing, lines 31-60 *)

\* RESIZE_DIM * size.height / size.width in i32: the quotient is truncated
ResizeHeight(width, height) == (RESIZE_DIM * height) \div width

\* lines 31-40: the Size passed to imgproc::resize, which fails on an empty
\* destination size (fx = fy = 0). The i32 division panics on a zero width.
Resize ==
    /\ pc = "nonempty"
    /\ IF img.width = 0
       THEN /\ pc' = "done"
            /\ result' = [NoResult EXCEPT !.status = "panic",
                                          !.error = "divide by zero"]
            /\ size' = size
       ELSE /\ size' = [width |-> RESIZE_DIM,
                        height |-> ResizeHeight(img.width, img.height)]
            /\ IF ResizeHeight(img.width, img.height) <= 0
               THEN /\ pc' = "done"
                    /\ result' = Err("resize")
               ELSE /\ pc' = "resized"
                    /\ result' = result
    /\ UNCHANGED <<input, img, blurred, gray, grad_x, grad_y, mag, angle_rad,
                   mag_max_val, valid_mask_output, non_zero_count,
                   dominant_angle, dx, dy, angle, t, min_val, max_val,
                   start_mask, end_mask, start_bgr, end_bgr, mean_calls>>

\* imgproc::resize (INTER_AREA) and imgproc::gaussian_blur (BORDER_REFLECT)
GaussianBlur ==
    /\ pc = "resized"
    /\ pc' = "blurred"
    /\ blurred' = BlurredImage(img.content, size.width, size.height)
    /\ UNCHANGED <<input, img, size, gray, grad_x, grad_y, mag, angle_rad,
                   mag_max_val, valid_mask_output, non_zero_count,
                   dominant_angle, dx, dy, angle, t, min_val, max_val,
                   start_mask, end_mask, start_bgr, end_bgr, mean_calls,
                   result>>

\* COLOR_BGR2GRAY: 0.299 R + 0.587 G + 0.114 B, rounded
GrayOf(bgr) == (299 * bgr[3] + 587 * bgr[2] + 114 * bgr[1] + 500) \div 1000

CvtColor ==
    /\ pc = "blurred"
    /\ pc' = "gray"
    /\ gray' = [i \in DOMAIN blurred |-> GrayOf(blurred[i])]
    /\ UNCHANGED <<input, img, size, blurred, grad_x, grad_y, mag, angle_rad,
                   mag_max_val, valid_mask_output, non_zero_count,
                   dominant_angle, dx, dy, angle, t, min_val, max_val,
                   start_mask, end_mask, start_bgr, end_bgr, mean_calls,
                   result>>

-----------------------------------------------------------------------------
(* Gradient estimation, lines 62-147 *)

\* the 5-tap Sobel kernels (ksize = 5): derivative and smoothing
SobelDeriv == <<-1, -2, 0, 2, 1>>
SobelSmooth == <<1, 4, 6, 4, 1>>

\* BORDER_CONSTANT: a pixel outside the Mat reads as 0
GrayAt(m, cols, rows, x, y) ==
    IF x < 0 \/ x >= cols \/ y < 0 \/ y >= rows THEN 0 ELSE m[y * cols + x]

\* the row kernel kx applied at (x, y)
SobelRow(m, cols, rows, x, y, kx) ==
      kx[1] * GrayAt(m, cols, rows, x - 2, y)
    + kx[2] * GrayAt(m, cols, rows, x - 1, y)
    + kx[3] * GrayAt(m, cols, rows, x, y)
    + kx[4] * GrayAt(m, cols, rows, x + 1, y)
    + kx[5] * GrayAt(m, cols, rows, x + 2, y)

\* imgproc::sobel, separable: kx along x, ky along y
SobelAt(m, cols, rows, x, y, kx, ky) ==
      ky[1] * SobelRow(m, cols, rows, x, y - 2, kx)
    + ky[2] * SobelRow(m, cols, rows, x, y - 1, kx)
    + ky[3] * SobelRow(m, cols, rows, x, y, kx)
    + ky[4] * SobelRow(m, cols, rows, x, y + 1, kx)
    + ky[5] * SobelRow(m, cols, rows, x, y + 2, kx)

SobelField(m, cols, rows, kx, ky) ==
    [idx \in Indices(cols, rows) |->
        SobelAt(m, cols, rows, idx % cols, idx \div cols, kx, ky)]

Sobel ==
    /\ pc = "gray"
    /\ pc' = "sobel"
    /\ grad_x' = SobelField(gray, size.width, size.height,
                          SobelDeriv, SobelSmooth)
    /\ grad_y' = SobelField(gray, size.width, size.height,
                          SobelSmooth, SobelDeriv)
    /\ UNCHANGED <<input, img, size, blurred, gray, mag, angle_rad,
                   mag_max_val, valid_mask_output, non_zero_count,
                   dominant_angle, dx, dy, angle, t, min_val, max_val,
                   start_mask, end_mask, start_bgr, end_bgr, mean_calls,
                   result>>

\* core::cart_to_polar, magnitude
Magnitude(gx, gy) == ISqrt(gx * gx + gy * gy)

\* core::cart_to_polar, angle in [0, 2 pi)
PolarAngle(gx, gy) == Atan2(gy, gx) % (2 * Pi)

CartToPolar ==
    /\ pc = "sobel"
    /\ pc' = "polar"
    /\ mag' = [i \in DOMAIN grad_x |-> Magnitude(grad_x[i], grad_y[i])]
    /\ angle_rad' = [i \in DOMAIN grad_x |-> PolarAngle(grad_x[i], grad_y[i])]
    /\ UNCHANGED <<input, img, size, blurred, gray, grad_x, grad_y,
                   mag_max_val, valid_mask_output, non_zero_count,
                   dominant_angle, dx, dy, angle, t, min_val, max_val,
                   start_mask, end_mask, start_bgr, end_bgr, mean_calls,
                   result>>

\* a threshold that keeps the pixels equal to it
ThresholdBinary_Inclusive(m, max) == THRESHOLD_DEN * m >= max

\* imgproc::threshold with THRESH_BINARY and threshold = 0.1 * max:
\* 255 where mag > threshold, else 0
ThresholdBinary(m, max) == THRESHOLD_DEN * m > max

Threshold ==
    /\ pc = "polar"
    /\ pc' = "masked"
    /\ mag_max_val' = MatMax(mag)
    /\ valid_mask_output' =
           [i \in DOMAIN mag |->
               IF ThresholdBinary(mag[i], mag_max_val') THEN 255 ELSE 0]
    /\ non_zero_count' = CountNonZero(valid_mask_output')
    /\ UNCHANGED <<input, img, size, blurred, gray, grad_x, grad_y, mag,
                   angle_rad, dominant_angle, dx, dy, angle, t, min_val,
                   max_val, start_mask, end_mask, start_bgr, end_bgr,
                   mean_calls, result>>

\* the angle accumulated without doubling
DoubleAngle_Single(a) == a

\* line 132
DoubleAngle(a) == 2 * a

\* the loop of lines 127-138 over the pixels lo .. hi:
\* <<sum_cos, sum_sin, count>>
RECURSIVE DoubleAngleSums(_, _, _, _)
DoubleAngleSums(mask_data, angle_data, lo, hi) ==
    IF lo > hi THEN <<0, 0, 0>>
    ELSE IF lo = hi
    THEN LET double_angle == DoubleAngle(angle_data[lo])
         IN  IF mask_data[lo] # 0
             THEN <<Cos(double_angle), Sin(double_angle), 1>>
             ELSE <<0, 0, 0>>
    ELSE LET mid == (lo + hi) \div 2
             a == DoubleAngleSums(mask_data, angle_data, lo, mid)
             b == DoubleAngleSums(mask_data, angle_data, mid + 1, hi)
         IN  <<a[1] + b[1], a[2] + b[2], a[3] + b[3]>>

\* lines 118-146
CircularMean(mask_data, angle_data) ==
    LET sums == DoubleAngleSums(mask_data, angle_data, 0,
                                   Len0(angle_data) - 1)
        count == sums[3]
    IN  IF count = 0 THEN 0
        ELSE HalfAtan2(DivRound(sums[2], count), DivRound(sums[1], count))

\* lines 115-147
DominantAngle(count, mask_data, angle_data) ==
    IF count < MIN_STRONG THEN 0 ELSE CircularMean(mask_data, angle_data)

Dominant ==
    /\ pc = "masked"
    /\ pc' = "dominant"
    /\ dominant_angle' =
           DominantAngle(non_zero_count, valid_mask_output, angle_rad)
    /\ UNCHANGED <<input, img, size, blurred, gray, grad_x, grad_y, mag,
                   angle_rad, mag_max_val, valid_mask_output, non_zero_count,
                   dx, dy, angle, t, min_val, max_val, start_mask, end_mask,
                   start_bgr, end_bgr, mean_calls, result>>

\* line 152
CompassAngle(cartesian_angle_rad) ==
    RemEuclid(Deg(90) - ToDegrees(cartesian_angle_rad), Deg(360))

\* lines 149-152
Compass ==
    /\ pc = "dominant"
    /\ pc' = "compass"
    /\ dx' = Cos(dominant_angle)
    /\ dy' = Sin(dominant_angle)
    /\ angle' = CompassAngle(Atan2(-Sin(dominant_angle), Cos(dominant_angle)))
    /\ UNCHANGED <<input, img, size, blurred, gray, grad_x, grad_y, mag,
                   angle_rad, mag_max_val, valid_mask_output, non_zero_count,
                   dominant_angle, t, min_val, max_val, start_mask, end_mask,
                   start_bgr, end_bgr, mean_calls, result>>

-----------------------------------------------------------------------------
(* Axis projection, lines 154-198 *)

\* line 165: t = x * dx + y * dy
Projection(x, y, ddx, ddy) == x * ddx + y * ddy

\* lines 157-168
ProjectionField(cols, rows, ddx, ddy) ==
    [idx \in Indices(cols, rows) |->
        Projection(idx % cols, idx \div cols, ddx, ddy)]

\* a lower threshold that forgets the offset of the range
ThresholdLow_NoMin(min, max) == 100 * min + BAND_PCT * max

\* line 181, times 100
ThresholdLow(min, max) == 100 * min + BAND_PCT * (max - min)

\* an upper threshold on the wrong side of max
ThresholdHigh_Above(min, max) == 100 * max + BAND_PCT * (max - min)

\* line 182, times 100
ThresholdHigh(min, max) == 100 * max - BAND_PCT * (max - min)

\* core::in_range with bounds (-inf, threshold_low]: both ends inclusive
InStartBand(v, min, max) == 100 * v <= ThresholdLow(min, max)

\* core::in_range with bounds [threshold_high, +inf)
InEndBand(v, min, max) == 100 * v >= ThresholdHigh(min, max)

Project ==
    /\ pc = "compass"
    /\ pc' = "projected"
    /\ t' = ProjectionField(size.width, size.height, dx, dy)
    /\ min_val' = MatMin(t')
    /\ max_val' = MatMax(t')
    /\ start_mask' = [i \in DOMAIN t' |->
                         IF InStartBand(t'[i], min_val', max_val')
                         THEN 255 ELSE 0]
    /\ end_mask' = [i \in DOMAIN t' |->
                       IF InEndBand(t'[i], min_val', max_val')
                       THEN 255 ELSE 0]
    /\ UNCHANGED <<input, img, size, blurred, gray, grad_x, grad_y, mag,
                   angle_rad, mag_max_val, valid_mask_output, non_zero_count,
                   dominant_angle, dx, dy, angle, start_bgr, end_bgr,
                   mean_calls, result>>

-----------------------------------------------------------------------------
(* Color sampling, lines 200-230 *)

\* sum of channel c over the masked pixels lo .. hi
RECURSIVE ChannelSum(_, _, _, _, _)
ChannelSum(m, mask, c, lo, hi) ==
    IF lo > hi THEN 0
    ELSE IF lo = hi THEN (IF mask[lo] # 0 THEN m[lo][c] ELSE 0)
    ELSE LET mid == (lo + hi) \div 2
         IN  ChannelSum(m, mask, c, lo, mid)
             + ChannelSum(m, mask, c, mid + 1, hi)

\* the cast to u8 without the rounding
ChannelMean_Truncated(sum, count) == Clamp(sum, 0, 255 * count) \div count

\* mean_val[c].clamp(0.0, 255.0).round() as u8, the mean being sum / count
ChannelMean(sum, count) == DivRound(Clamp(sum, 0, 255 * count), count)

\* get_avg_color: core::mean over the mask, as <<b, g, r>>
GetAvgColor(m, mask) ==
    LET count == CountNonZero(mask)
        last == Len0(m) - 1
    IN  <<ChannelMean(ChannelSum(m, mask, 1, 0, last), count),
          ChannelMean(ChannelSum(m, mask, 2, 0, last), count),
          ChannelMean(ChannelSum(m, mask, 3, 0, last), count)>>

\* lines 208-212 and 214-218
BandColor(m, mask) ==
    IF CountNonZero(mask) > 0 THEN GetAvgColor(m, mask) ELSE <<0, 0, 0>>

\* whether get_avg_color is called for the band
CallsMean(mask) == CountNonZero(mask) > 0

Sample ==
    /\ pc = "projected"
    /\ pc' = "sampled"
    /\ start_bgr' = BandColor(blurred, start_mask)
    /\ end_bgr' = BandColor(blurred, end_mask)
    /\ mean_calls' = {b \in {"start"} : CallsMean(start_mask)}
                     \cup {b \in {"end"} : CallsMean(end_mask)}
    /\ UNCHANGED <<input, img, size, blurred, gray, grad_x, grad_y, mag,
                   angle_rad, mag_max_val, valid_mask_output, non_zero_count,
                   dominant_angle, dx, dy, angle, t, min_val, max_val,
                   start_mask, end_mask, result>>

HexDigits ==
    <<"0", "1", "2", "3", "4", "5", "6", "7",
      "8", "9", "a", "b", "c", "d", "e", "f">>

\* {:02x} of a u8
Hex2(v) == HexDigits[(v \div 16) + 1] \o HexDigits[(v % 16) + 1]

\* format!("#{:02x}{:02x}{:02x}", bgr[2], bgr[1], bgr[0])
HexColor(bgr) == "#" \o Hex2(bgr[3]) \o Hex2(bgr[2]) \o Hex2(bgr[1])

Assemble ==
    /\ pc = "sampled"
    /\ pc' = "done"
    /\ result' = [NoResult EXCEPT !.status = "ok",
                                  !.start_color = HexColor(start_bgr),
                                  !.end_color = HexColor(end_bgr),
                                  !.angle = angle]
    /\ UNCHANGED <<input, img, size, blurred, gray, grad_x, grad_y, mag,
                   angle_rad, mag_max_val, valid_mask_output, non_zero_count,
                   dominant_angle, dx, dy, angle, t, min_val, max_val,
                   start_mask, end_mask, start_bgr, end_bgr, mean_calls>>

-----------------------------------------------------------------------------
(* The whole function, from the file to the result *)

Next ==
    \/ Imread
    \/ CheckEmpty
    \/ Resize
    \/ GaussianBlur
    \/ CvtColor
    \/ Sobel
    \/ CartToPolar
    \/ Threshold
    \/ Dominant
    \/ Compass
    \/ Project
    \/ Sample
    \/ Assemble

Spec == Init /\ [][Next]_vars

-----------------------------------------------------------------------------
(* The gradient estimator and what follows it, on drawn polar fields *)

\* A polar field on the working grid of a RESIZE_DIM x 1 image: a run of
\* na pixels of magnitude 100 and angle anga, a run of nb pixels of
\* magnitude magb and angle angb, then weak pixels of magnitude 10 and 1
\* in turn.
StrongAngles == {0, 90, 180, 270}
SecondMags == {11, 100}
SecondAngles == {181, 360, 700}

PolarMag(f, i) ==
    IF i < f.na THEN 100
    ELSE IF i < f.na + f.nb THEN f.magb
    ELSE IF i % 2 = 1 THEN 10 ELSE 1

PolarAng(f, i) ==
    IF i < f.na THEN f.anga
    ELSE IF i < f.na + f.nb THEN f.angb
    ELSE (7 * i) % (2 * Pi)

PolarFields ==
    [na : 0 .. MaxRun, anga : StrongAngles,
     nb : 0 .. MaxRun, magb : SecondMags, angb : SecondAngles]

InitEstimator ==
    /\ pc = "polar"
    /\ input = [utf8 |-> TRUE, width |-> RESIZE_DIM, height |-> 1,
                content |-> "hramp"]
    /\ img = [width |-> RESIZE_DIM, height |-> 1, content |-> "hramp"]
    /\ size = [width |-> RESIZE_DIM, height |-> 1]
    /\ blurred = BlurredImage("hramp", RESIZE_DIM, 1)
    /\ UnassignedDerivatives
    /\ \E f \in PolarFields :
           /\ mag = [i \in Indices(RESIZE_DIM, 1) |-> PolarMag(f, i)]
           /\ angle_rad = [i \in Indices(RESIZE_DIM, 1) |-> PolarAng(f, i)]
    /\ UnassignedEstimate
    /\ dominant_angle = 0
    /\ UnassignedAxis
    /\ UnassignedProjection
    /\ start_mask = EmptyMat
    /\ end_mask = EmptyMat
    /\ UnassignedColors

NextEstimator ==
    \/ Threshold
    \/ Dominant
    \/ Compass
    \/ Project
    \/ Sample
    \/ Assemble

SpecEstimator == InitEstimator /\ [][NextEstimator]_vars

-----------------------------------------------------------------------------
(* The axis projector and what follows it, on drawn dominant angles *)

ProjectorContents == {"solid", "diag"}

InitProjector ==
    /\ pc = "dominant"
    /\ \E rows \in 1 .. MaxRows, content \in ProjectorContents :
           /\ input = [utf8 |-> TRUE, width |-> RESIZE_DIM, height |-> rows,
                       content |-> content]
           /\ img = [width |-> RESIZE_DIM, height |-> rows,
                     content |-> content]
           /\ size = [width |-> RESIZE_DIM, height |-> rows]
           /\ blurred = BlurredImage(content, RESIZE_DIM, rows)
    /\ UnassignedDerivatives
    /\ UnassignedPolar
    /\ UnassignedEstimate
    /\ dominant_angle \in (-(Pi \div 2)) .. (Pi \div 2)
    /\ UnassignedAxis
    /\ UnassignedProjection
    /\ start_mask = EmptyMat
    /\ end_mask = EmptyMat
    /\ UnassignedColors

NextProjector ==
    \/ Compass
    \/ Project
    \/ Sample
    \/ Assemble

SpecProjector == InitProjector /\ [][NextProjector]_vars

-----------------------------------------------------------------------------
(* The color sampler, on drawn band masks *)

\* the mask selecting the pixels lo .. hi (none when lo > hi)
IntervalMask(n, lo, hi) ==
    [i \in 0 .. (n - 1) |-> IF lo <= i /\ i <= hi THEN 255 ELSE 0]

MaskEnds == {0, 14, 85, 99}

SamplerContents == {"solid", "hramp", "diag"}

InitSampler ==
    /\ pc = "projected"
    /\ \E content \in SamplerContents :
           /\ input = [utf8 |-> TRUE, width |-> RESIZE_DIM, height |-> 1,
                       content |-> content]
           /\ img = [width |-> RESIZE_DIM, height |-> 1, content |-> content]
           /\ blurred = BlurredImage(content, RESIZE_DIM, 1)
    /\ size = [width |-> RESIZE_DIM, height |-> 1]
    /\ UnassignedDerivatives
    /\ UnassignedPolar
    /\ UnassignedEstimate
    /\ dominant_angle = 0
    /\ UnassignedAxis
    /\ UnassignedProjection
    /\ \E lo \in MaskEnds, hi \in MaskEnds :
           start_mask = IntervalMask(RESIZE_DIM, lo, hi)
    /\ \E lo \in MaskEnds, hi \in MaskEnds :
           end_mask = IntervalMask(RESIZE_DIM, lo, hi)
    /\ UnassignedColors

NextSampler ==
    \/ Sample
    \/ Assemble

SpecSampler == InitSampler /\ [][NextSampler]_vars

-----------------------------------------------------------------------------
(* Positions, in program order *)

Stages ==
    <<"start", "decoded", "nonempty", "resized", "blurred", "gray", "sobel",
      "polar", "masked", "dominant", "compass", "projected", "sampled",
      "done">>

StageNo(p) == CHOOSE k \in DOMAIN Stages : Stages[k] = p

\* the function got past the stage named p and has not failed
Past(p) == result.status \in {"none", "ok"} /\ StageNo(pc) >= StageNo(p)

Returned == pc = "done" /\ result.status = "ok"

Cols == size.width
XOf(i) == i % Cols
YOf(i) == i \div Cols

-----------------------------------------------------------------------------
(* C1: for every valid input the returned angle is in [0, 360), whatever  *)
(* dominant angle the estimator produced (the fallback 0 or a circular    *)
(* mean).                                                                 *)

C1_AngleInRange ==
    /\ Past("compass") => (0 <= angle /\ angle < Deg(360))
    /\ Returned => (0 <= result.angle /\ result.angle < Deg(360))

\* a circular mean was taken and the call returned the angle 0
C1_Witness ==
    /\ Returned
    /\ non_zero_count >= MIN_STRONG
    /\ dominant_angle = -(Pi \div 2)
    /\ result.angle = 0

-----------------------------------------------------------------------------
(* C10: the raw dominant angle is 0 or half of an atan2, so it lies in    *)
(* [-90, 90] degrees, dx >= 0, and the reported angle lies in [0, 180].   *)

C10_HalfTurnOnly ==
    /\ Past("dominant") =>
           (-(Pi \div 2) <= dominant_angle /\ dominant_angle <= Pi \div 2)
    /\ Past("compass") => (dx >= 0 /\ 0 <= angle /\ angle <= Deg(180))
    /\ Returned => (0 <= result.angle /\ result.angle <= Deg(180))

\* a circular mean at the upper end: dominant angle 90 degrees, reported 180
C10_Witness ==
    /\ Returned
    /\ non_zero_count >= MIN_STRONG
    /\ dominant_angle = Pi \div 2
    /\ result.angle = Deg(180)

-----------------------------------------------------------------------------
(* C6: the strong-gradient mask holds exactly the pixels whose magnitude  *)
(* is strictly greater than 0.1 * (global maximum magnitude); with fewer  *)
(* than 10 masked pixels the raw dominant angle is exactly 0 (dx = 1,     *)
(* dy = 0, t(x, y) = x), otherwise it is the halved circular mean over    *)
(* exactly the masked pixels.                                             *)

\* the largest magnitude
C6_Max == CHOOSE m \in {mag[j] : j \in DOMAIN mag} :
              \A k \in DOMAIN mag : mag[k] <= m

\* the pixels whose magnitude exceeds a tenth of max
C6_Strong(max) == {i \in DOMAIN mag : 10 * mag[i] > max}

C6_MaskAndDominant ==
    Past("masked") =>
        \E strong \in {C6_Strong(C6_Max)} :
            /\ \A i \in DOMAIN mag : (valid_mask_output[i] # 0) <=> i \in strong
            /\ non_zero_count = Cardinality(strong)
            /\ (Past("dominant") /\ Cardinality(strong) < 10) =>
                   dominant_angle = 0
            /\ (Past("compass") /\ Cardinality(strong) < 10) =>
                   (dx = TrigScale /\ dy = 0)
            /\ (Past("projected") /\ Cardinality(strong) < 10) =>
                   \A i \in DOMAIN t : t[i] = TrigScale * XOf(i)
            /\ (pc = "dominant" /\ Cardinality(strong) >= 10) =>
                   dominant_angle =
                       CircularMean([i \in DOMAIN mag |->
                                        IF i \in strong THEN 255 ELSE 0],
                                    angle_rad)

\* exactly 10 strong pixels, a pixel sitting exactly on the threshold left
\* out, and a circular mean that is not 0
C6_Witness ==
    /\ Past("dominant")
    /\ non_zero_count = 10
    /\ \E i \in DOMAIN mag : 10 * mag[i] = mag_max_val /\ valid_mask_output[i] = 0
    /\ dominant_angle # 0

-----------------------------------------------------------------------------
(* C8: replacing the angle a of any subset of the masked pixels by        *)
(* a + 180 degrees leaves the cos(2a) / sin(2a) sums, the dominant angle  *)
(* and the reported angle unchanged (at least 10 masked pixels).          *)

\* the angle field with the gradient vectors of the pixels in S negated
C8_Flip(angle_data, S) ==
    [i \in DOMAIN angle_data |->
        IF i \in S THEN (angle_data[i] + Pi) % (2 * Pi) ELSE angle_data[i]]

\* subsets of the masked pixels: the first k, the odd ones, single pixels
C8_Subsets ==
    LET masked == {i \in DOMAIN valid_mask_output : valid_mask_output[i] # 0}
    IN  {{i \in masked : i < k} : k \in 0 .. (2 * MaxRun + 1)}
        \cup {{i \in masked : i % 2 = 1}}
        \cup {{i} : i \in {j \in masked : j < 3}}

-----------------------------------------------------------------------------
(* C7: with t(x, y) = x * dx + y * dy from the raw (dx, dy) and min / max *)
(* over the whole grid, a pixel is in the start mask iff                  *)
(* t <= min + 0.15 * (max - min) and in the end mask iff                  *)
(* t >= max - 0.15 * (max - min); when max > min no pixel is in both and  *)
(* every pixel strictly between the two thresholds is in neither.         *)

C7_BandMasks ==
    Past("projected") =>
        /\ dx = Cos(dominant_angle)
        /\ dy = Sin(dominant_angle)
        /\ DOMAIN t = DOMAIN blurred
        /\ \A i \in DOMAIN t : t[i] = XOf(i) * dx + YOf(i) * dy
        /\ \A i \in DOMAIN t : min_val <= t[i] /\ t[i] <= max_val
        /\ \E i \in DOMAIN t : t[i] = min_val
        /\ \E i \in DOMAIN t : t[i] = max_val
        /\ \A i \in DOMAIN t :
               /\ (start_mask[i] # 0) <=>
                      (100 * t[i] <= 100 * min_val + 15 * (max_val - min_val))
               /\ (end_mask[i] # 0) <=>
                      (100 * t[i] >= 100 * max_val - 15 * (max_val - min_val))
        /\ max_val > min_val =>
               \A i \in DOMAIN t : ~(start_mask[i] # 0 /\ end_mask[i] # 0)
        /\ \A i \in DOMAIN t :
               (/\ 100 * t[i] > 100 * min_val + 15 * (max_val - min_val)
                /\ 100 * t[i] < 100 * max_val - 15 * (max_val - min_val))
               => (start_mask[i] = 0 /\ end_mask[i] = 0)

\* a slanted axis pointing up (dy < 0, so min < 0) on a grid of several
\* rows, with pixels in the start band, in the end band and in neither
C7_Witness ==
    /\ Past("projected")
    /\ dx > 1 /\ dy < 0
    /\ size.height > 1
    /\ min_val < 0
    /\ \E i, j, k \in DOMAIN t :
           /\ start_mask[i] # 0 /\ end_mask[i] = 0
           /\ end_mask[j] # 0 /\ start_mask[j] = 0
           /\ start_mask[k] = 0 /\ end_mask[k] = 0

-----------------------------------------------------------------------------
(* C9: on every non-empty working grid and for every dominant direction   *)
(* both band masks select at least one pixel (the pixel attaining min t   *)
(* is in the start mask, the one attaining max t in the end mask), so the *)
(* black fallback is never taken; when max = min both masks select every  *)
(* pixel and start_color = end_color.                                     *)

C9_BandsNeverEmpty ==
    /\ Past("projected") =>
           /\ \E i \in DOMAIN t : start_mask[i] # 0
           /\ \E i \in DOMAIN t : end_mask[i] # 0
           /\ \A i \in DOMAIN t :
                  /\ (\A j \in DOMAIN t : t[i] <= t[j]) => start_mask[i] # 0
                  /\ (\A j \in DOMAIN t : t[i] >= t[j]) => end_mask[i] # 0
           /\ max_val = min_val =>
                  \A i \in DOMAIN t : start_mask[i] # 0 /\ end_mask[i] # 0
    /\ Past("sampled") =>
           /\ mean_calls = {"start", "end"}
           /\ max_val = min_val => start_bgr = end_bgr
    /\ Returned =>
           (max_val = min_val => result.start_color = result.end_color)

\* the call returned after sampling both bands along a slanted axis
C9_Witness ==
    /\ Returned
    /\ mean_calls = {"start", "end"}
    /\ dx > 1 /\ dy > 0
    /\ size.height > 1
    /\ result.start_color # result.end_color

-----------------------------------------------------------------------------
(* C5: for each band on its own, a mask selecting no pixel gives exactly  *)
(* "#000000" without computing the masked mean; a mask selecting at least *)
(* one pixel gives the per-channel masked mean, clamped to [0, 255] and   *)
(* rounded, emitted in red-green-blue order.                              *)

C5_Selected(mask) == {i \in DOMAIN mask : mask[i] # 0}

\* v is the mean of channel c over the pixels in sel, rounded to nearest
C5_IsRoundedMean(v, sel, c) ==
    \E sum \in {ChannelSum(blurred, [i \in DOMAIN blurred |->
                                        IF i \in sel THEN 255 ELSE 0],
                           c, 0, Len0(blurred) - 1)} :
        /\ 0 <= v /\ v <= 255
        /\ 2 * v * Cardinality(sel) <= 2 * sum + Cardinality(sel)
        /\ 2 * v * Cardinality(sel) > 2 * sum - Cardinality(sel)

\* "#rrggbb" of the red, green and blue values
C5_Rgb(r, g, b) ==
    "#" \o HexDigits[(r \div 16) + 1] \o HexDigits[(r % 16) + 1]
        \o HexDigits[(g \div 16) + 1] \o HexDigits[(g % 16) + 1]
        \o HexDigits[(b \div 16) + 1] \o HexDigits[(b % 16) + 1]

C5_Band(band, mask, bgr, color) ==
    \E sel \in {C5_Selected(mask)} :
        /\ sel = {} =>
               /\ Past("sampled") => (bgr = <<0, 0, 0>> /\ band \notin mean_calls)
               /\ Returned => color = "#000000"
        /\ sel # {} =>
               /\ Past("sampled") =>
                      /\ band \in mean_calls
                      /\ C5_IsRoundedMean(bgr[1], sel, 1)
                      /\ C5_IsRoundedMean(bgr[2], sel, 2)
                      /\ C5_IsRoundedMean(bgr[3], sel, 3)
               /\ Returned => color = C5_Rgb(bgr[3], bgr[2], bgr[1])

C5_BandColors ==
    Past("sampled") =>
        /\ C5_Band("start", start_mask, start_bgr, result.start_color)
        /\ C5_Band("end", end_mask, end_bgr, result.end_color)

\* an empty start band reported black beside a sampled end band whose
\* channels differ and whose mean needed rounding
C5_Witness ==
    /\ Returned
    /\ C5_Selected(start_mask) = {}
    /\ C5_Selected(end_mask) # {}
    /\ mean_calls = {"end"}
    /\ result.start_color = "#000000"
    /\ end_bgr[1] # end_bgr[3]
    /\ result.end_color # "#000000"

-----------------------------------------------------------------------------
(* C4: a decoded image of zero width or zero height ends the call with    *)
(* an error and no GradientResult before any later stage runs: the        *)
(* division by the image width is never evaluated with width = 0.         *)

C4_EmptyFailsFirst ==
    /\ result.status # "panic"
    /\ (pc # "start" /\ input.utf8 /\ (img.width = 0 \/ img.height = 0)) =>
           /\ pc \in {"decoded", "done"}
           /\ size = [width |-> 0, height |-> 0]
           /\ blurred = EmptyMat
           /\ result.status # "ok"
           /\ pc = "done" => result = Err("Image is empty")
    /\ Past("resized") => (img.width > 0 /\ img.height > 0)

\* a decoded image of zero width and nonzero height was rejected
C4_Witness ==
    /\ pc = "done"
    /\ input.utf8
    /\ img.width = 0
    /\ img.height > 0
    /\ result = Err("Image is empty")

-----------------------------------------------------------------------------
(* C2: a perfectly solid-color image has fewer than 10 pixels in the      *)
(* strong-gradient mask, and the returned angle is 0, with start_color    *)
(* equal to end_color.                                                    *)

C2_IsSolid == \A i, j \in DOMAIN blurred : blurred[i] = blurred[j]

C2_SolidGivesAngleZero ==
    (Returned /\ C2_IsSolid) =>
        /\ non_zero_count < 10
        /\ result.angle = 0
        /\ result.start_color = result.end_color

-----------------------------------------------------------------------------
(* C3: for an input of W x H the working size passed to resize is         *)
(* width 100 and height round(100 * H / W), the rounded and not the       *)
(* truncated value.                                                       *)

C3_RoundedHeight ==
    (/\ StageNo(pc) >= StageNo("resized")
     /\ input.utf8 /\ img.width > 0 /\ img.height > 0) =>
        /\ size.width = 100
        /\ 2 * img.width * size.height <= 2 * 100 * img.height + img.width
        /\ 2 * img.width * size.height > 2 * 100 * img.height - img.width

====
